---------------------------- MODULE Spec2Model ----------------------------
(***************************************************************************)
(* A model of the topic extractor of BettaFish                             *)
(*   src/MindSpider/BroadTopicExtraction/topic_extractor.py                *)
(*   src/utils/scenario_loader.py                                          *)
(*                                                                         *)
(* Text is modelled at the level of code points: a Python str is a         *)
(* sequence whose elements name one code point each.  ASCII code points    *)
(* are written as themselves, except "QT" (the double quote), "BT" (the    *)
(* backtick) and "NL" (the line feed).  A code point outside ASCII is      *)
(* written "uXXXX" with its hexadecimal number, e.g. "u5173" is 关.        *)
(***************************************************************************)
EXTENDS Integers, Sequences, FiniteSets, TLC

(***************************************************************************)
(* Bounds of the model.                                                    *)
(***************************************************************************)
\* the longest news list passed to extract_keywords_and_summary
MaxNews == 2
\* the largest max_keywords / limit argument enumerated below the defaults
MaxLimit == 2
\* the longest keyword list passed to the filter and to get_search_keywords
MaxList == 2
\* the number of threads that call get_scenario_loader concurrently
MaxCallers == 2

(***************************************************************************)
(* Python str operations used by the code.                                 *)
(***************************************************************************)
Digits == {"0", "1", "2", "3", "4", "5", "6", "7", "8", "9"}

LowerLetters == {"a", "b", "c", "d", "e", "f", "g", "h", "i", "j", "k", "l", "m",
                 "n", "o", "p", "q", "r", "s", "t", "u", "v", "w", "x", "y", "z"}

UpperLetters == {"A", "B", "C", "D", "E", "F", "G", "H", "I", "J", "K", "L", "M",
                 "N", "O", "P", "Q", "R", "S", "T", "U", "V", "W", "X", "Y", "Z"}

\* str.isspace for the code points of the model
IsSpace(c) == c \in {" ", "NL"}

\* str.lower, one code point
LowerChar(c) ==
    CASE c = "A" -> "a" [] c = "B" -> "b" [] c = "C" -> "c" [] c = "D" -> "d"
      [] c = "E" -> "e" [] c = "F" -> "f" [] c = "G" -> "g" [] c = "H" -> "h"
      [] c = "I" -> "i" [] c = "J" -> "j" [] c = "K" -> "k" [] c = "L" -> "l"
      [] c = "M" -> "m" [] c = "N" -> "n" [] c = "O" -> "o" [] c = "P" -> "p"
      [] c = "Q" -> "q" [] c = "R" -> "r" [] c = "S" -> "s" [] c = "T" -> "t"
      [] c = "U" -> "u" [] c = "V" -> "v" [] c = "W" -> "w" [] c = "X" -> "x"
      [] c = "Y" -> "y" [] c = "Z" -> "z" [] OTHER -> c

\* str.lower
Lower(s) == [i \in 1..Len(s) |-> LowerChar(s[i])]

\* s[a-1 : b] of Python, as the 1-based closed range a..b
Slice(s, a, b) == IF a > b THEN <<>> ELSE SubSeq(s, a, b)

\* s[:n] of Python for n >= 0
Take(s, n) == IF n >= Len(s) THEN s ELSE Slice(s, 1, n)

\* the elements of a list, as a set
Range(s) == {s[i] : i \in 1..Len(s)}

\* str.startswith at the 1-based position i
MatchAt(s, i, sub) ==
    /\ i >= 1
    /\ i + Len(sub) - 1 <= Len(s)
    /\ \A k \in 1..Len(sub) : s[i + k - 1] = sub[k]

\* the least element of a set of positions, 0 if there is none
First(hits) == IF hits = {} THEN 0 ELSE CHOOSE i \in hits : \A j \in hits : i <= j

\* str.find from the 1-based position from: the first position of sub, 0 if none
Find(s, sub, from) == First({i \in from..(Len(s) - Len(sub) + 1) : MatchAt(s, i, sub)})

\* sub in s
Contains(s, sub) == Find(s, sub, 1) # 0

\* the greatest element of a non-empty set of positions
Last(hits) == CHOOSE i \in hits : \A j \in hits : j <= i

\* s from the first to the last of the positions kept, empty if there is none
Between(s, kept) == IF kept = {} THEN <<>> ELSE SubSeq(s, First(kept), Last(kept))

\* str.strip: from the first to the last code point that is no whitespace
Strip(s) == Between(s, {i \in 1..Len(s) : ~IsSpace(s[i])})

\* re.sub(r'[chars]', '', s)
RemoveChars(s, chars) == SelectSeq(s, LAMBDA c : c \notin chars)

\* re.sub(r'[chars]', ' ', s)
BlankChars(s, chars) == [i \in 1..Len(s) |-> IF s[i] \in chars THEN " " ELSE s[i]]

\* the k-th of the positions at, counted from 1
Kth(at, k) == CHOOSE i \in at : Cardinality({j \in at : j < i}) = k - 1

\* the pieces of s between the separators at the positions at
PiecesAt(s, at) ==
    [k \in 1..(Cardinality(at) + 1) |->
        Slice(s, IF k = 1 THEN 1 ELSE Kth(at, k - 1) + 1,
                 IF k = Cardinality(at) + 1 THEN Len(s) ELSE Kth(at, k) - 1)]

\* re.split(r'[seps]', s) and str.split(sep) for a one code point sep:
\* the pieces between separators, empty pieces included
SplitOn(s, seps) == PiecesAt(s, {i \in 1..Len(s) : s[i] \in seps})

\* str.split(): the maximal runs of non-whitespace
SplitWs(s) == SelectSeq(SplitOn(s, {" ", "NL"}), LAMBDA piece : piece # <<>>)

\* str.join
RECURSIVE Join(_, _)
Join(sep, items) ==
    IF items = <<>> THEN <<>>
    ELSE IF Len(items) = 1 THEN items[1]
    ELSE items[1] \o sep \o Join(sep, Tail(items))

\* str(n) for an int n >= 0
RECURSIVE StrInt(_)
StrInt(n) ==
    LET d == <<"0", "1", "2", "3", "4", "5", "6", "7", "8", "9">>
    IN  IF n < 10 THEN <<d[n + 1]>> ELSE StrInt(n \div 10) \o <<d[(n % 10) + 1]>>

\* str.isdigit
IsDigit(s) == s # <<>> /\ \A i \in 1..Len(s) : s[i] \in Digits

\* re.match(r'^[a-zA-Z]+$', s) on a str without a trailing line feed
IsLatin(s) == s # <<>> /\ \A i \in 1..Len(s) : s[i] \in (LowerLetters \cup UpperLetters)

\* an optional value (a dict key that may be missing, an Optional[...]):
\* <<>> when absent, <<v>> when present
None == <<>>
Some(v) == <<v>>

(***************************************************************************)
(* The scenario store: src/utils/scenario_loader.py                        *)
(*                                                                         *)
(* A YAML mapping is a record of optional keys.  A mapping valued key that *)
(* YAML may also leave null (crawler:, topic_extraction:) carries isNone.  *)
(***************************************************************************)
\* a user_prompt_template: id names its literal text ("" is the empty str),
\* fields are the replacement fields {...} it holds
Template(id, fields) == [id |-> id, fields |-> fields]

\* crawler.topic_extraction.keyword_filters, a mapping of optional keys
Filters(inc, exc, min, max) ==
    [include_patterns |-> inc, exclude_patterns |-> exc,
     min_length |-> min, max_length |-> max]

\* crawler.topic_extraction, a mapping of optional keys, or null
TopicExtraction(sys, tmpl, flt) ==
    [isNone |-> FALSE, system_prompt |-> sys, user_prompt_template |-> tmpl,
     keyword_filters |-> flt]

NullTopicExtraction ==
    [isNone |-> TRUE, system_prompt |-> None, user_prompt_template |-> None,
     keyword_filters |-> None]

\* the crawler section: a mapping that may hold topic_extraction
Crawler(te) == [topic_extraction |-> te]

\* the parsed YAML of one scenario file: metadata (its name) may be missing,
\* crawler may be missing
YamlData(name, crawler) == [metadata |-> name, crawler |-> crawler]

\* 芯 and AI, two literal patterns; re.search of a literal is a substring test
PatXin == <<"u82af">>
PatAI == <<"A", "I">>

DataDefault ==
    YamlData(Some("default_scenario"),
        Some(Crawler(Some(TopicExtraction(
            Some("SYS_PROMPT_default"),
            Some(Template("TEMPLATE_default", {"news_count", "news_text", "max_keywords"})),
            Some(Filters(None, Some(<<PatAI>>), Some(3), None)))))))

DataAiTech ==
    YamlData(Some("ai_tech_scenario"),
        Some(Crawler(Some(TopicExtraction(
            None,
            Some(Template("TEMPLATE_ai_tech", {"news_text", "topic"})),
            Some(Filters(Some(<<PatXin, PatAI>>), Some(<<>>), None, Some(4))))))))

\* a scenario without a crawler section
DataMinimal == YamlData(Some("minimal_scenario"), None)

\* topic_extraction with an empty template and empty filter rules
DataNoFilter ==
    YamlData(Some("nofilter_scenario"),
        Some(Crawler(Some(TopicExtraction(
            Some("SYS_PROMPT_nofilter"), Some(Template("", {})),
            Some(Filters(None, None, None, None)))))))

\* "topic_extraction:" left null in the YAML
DataNullTe ==
    YamlData(Some("nullte_scenario"), Some(Crawler(Some(NullTopicExtraction))))

\* a file without the metadata key
DataBroken == YamlData(None, Some(Crawler(None)))

YamlFile(stem, data) == [stem |-> stem, data |-> data]

\* the scenarios directory: whether it exists, whether it can be created,
\* and its *.yaml files in glob order
Dir(exists, writable, files) == [exists |-> exists, writable |-> writable, files |-> files]

Disks ==
    { Dir(FALSE, TRUE, <<>>),
      Dir(FALSE, FALSE, <<>>),
      Dir(TRUE, TRUE, <<YamlFile("default", DataDefault), YamlFile("ai_tech", DataAiTech)>>),
      Dir(TRUE, TRUE, <<YamlFile("broken", DataBroken), YamlFile("nofilter", DataNoFilter),
                        YamlFile("ai_tech", DataAiTech)>>),
      Dir(TRUE, TRUE, <<YamlFile("nullte", DataNullTe), YamlFile("ai_tech", DataAiTech)>>),
      Dir(TRUE, TRUE, <<YamlFile("minimal", DataMinimal), YamlFile("nofilter", DataNoFilter)>>) }

\* the scenario ids an extractor is constructed with; no directory of the
\* model holds prompt_engineering
ScenarioIds == {"default", "ai_tech", "nofilter", "prompt_engineering"}

\* a call's outcome: a returned value, or a raised exception
Return(v) == [raised |-> FALSE, exc |-> "", value |-> v]
Raise(exc, like) == [raised |-> TRUE, exc |-> exc, value |-> like]

\* ScenarioLoader._load_scenario_file
_load_scenario_file(yaml_file) ==
    LET data == yaml_file.data
        scenario == [name |-> IF data.metadata = None THEN "" ELSE data.metadata[1],
                     crawler |-> IF data.crawler = None THEN Crawler(None)
                                 ELSE data.crawler[1]]
    IN  IF data.metadata = None THEN Raise("ValueError", scenario) ELSE Return(scenario)

\* ScenarioLoader._load_all_scenarios, the loop over the files: the cache is
\* the list of (scenario_id, scenario) in insertion order, a later file of
\* the same stem replacing the value of an earlier one
RECURSIVE LoadFiles(_, _)
LoadFiles(files, cache) ==
    IF files = <<>> THEN cache
    ELSE LET r == _load_scenario_file(Head(files))
             id == Head(files).stem
             entry == [id |-> id, scenario |-> r.value]
             next == IF r.raised THEN cache
                     ELSE IF \E i \in 1..Len(cache) : cache[i].id = id
                          THEN [i \in 1..Len(cache) |->
                                   IF cache[i].id = id THEN entry ELSE cache[i]]
                     ELSE Append(cache, entry)
         IN  LoadFiles(Tail(files), next)

\* ScenarioLoader.__init__ with _load_all_scenarios: the new loader's cache,
\* or the error of a directory that can neither be read nor created
ScenarioLoader(dir) ==
    IF ~dir.exists
    THEN (IF dir.writable THEN Return(<<>>) ELSE Raise("PermissionError", <<>>))
    ELSE Return(LoadFiles(dir.files, <<>>))

\* ScenarioLoader.get_scenario: the cached scenario, or None
get_scenario(cache, scenario_id) ==
    IF \A i \in 1..Len(cache) : cache[i].id # scenario_id THEN None
    ELSE Some(cache[CHOOSE i \in 1..Len(cache) : cache[i].id = scenario_id].scenario)

\* lines 109-118 of get_default_scenario, default being get_scenario("default")
DefaultOrFirst(cache, default) ==
    IF default # None THEN Return(default)
    ELSE IF cache # <<>> THEN Return(Some(cache[1].scenario))
    ELSE Raise("ValueError", None)

\* ScenarioLoader.get_default_scenario
get_default_scenario(cache) == DefaultOrFirst(cache, get_scenario(cache, "default"))


(***************************************************************************)
(* The extractor: src/MindSpider/BroadTopicExtraction/topic_extractor.py   *)
(***************************************************************************)
\* a news dict: title may be missing, and when present may be a str or a
\* value that is no str (a JSON null); source_platform and source may be missing
News(title, source_platform, source) ==
    [title |-> title, source_platform |-> source_platform, source |-> source]

StrValue(s) == [isStr |-> TRUE, s |-> s]
NoneValue == [isStr |-> FALSE, s |-> <<>>]

\* "今日暂无热点新闻"
NoNewsSummary == <<"u4eca", "u65e5", "u6682", "u65e0", "u70ed", "u70b9", "u65b0", "u95fb">>

\* "今日热点新闻涵盖多个领域，反映了当前社会的多元化关注点。"
JsonPlaceholderSummary ==
    <<"u4eca", "u65e5", "u70ed", "u70b9", "u65b0", "u95fb", "u6db5", "u76d6", "u591a",
      "u4e2a", "u9886", "u57df", "uff0c", "u53cd", "u6620", "u4e86", "u5f53", "u524d",
      "u793e", "u4f1a", "u7684", "u591a", "u5143", "u5316", "u5173", "u6ce8", "u70b9",
      "u3002">>

\* "分析结果处理失败，请稍后重试。"
FailureSummary ==
    <<"u5206", "u6790", "u7ed3", "u679c", "u5904", "u7406", "u5931", "u8d25", "uff0c",
      "u8bf7", "u7a0d", "u540e", "u91cd", "u8bd5", "u3002">>

\* "今日热点新闻内容丰富，涵盖了社会各个层面的关注点。"
ManualPlaceholderSummary ==
    <<"u4eca", "u65e5", "u70ed", "u70b9", "u65b0", "u95fb", "u5185", "u5bb9", "u4e30",
      "u5bcc", "uff0c", "u6db5", "u76d6", "u4e86", "u793e", "u4f1a", "u5404", "u4e2a",
      "u5c42", "u9762", "u7684", "u5173", "u6ce8", "u70b9", "u3002">>

\* f"今日共收集到 {n} 条热点新闻，涵盖多个平台的热门话题。"
FallbackSummary(n) ==
    <<"u4eca", "u65e5", "u5171", "u6536", "u96c6", "u5230", " ">> \o StrInt(n) \o
    <<" ", "u6761", "u70ed", "u70b9", "u65b0", "u95fb", "uff0c", "u6db5", "u76d6",
      "u591a", "u4e2a", "u5e73", "u53f0", "u7684", "u70ed", "u95e8", "u8bdd", "u9898",
      "u3002">>

\* '无标题' and '未知'
NoTitle == <<"u65e0", "u6807", "u9898">>
UnknownSource == <<"u672a", "u77e5">>

\* the fixed system prompt and the built-in user prompt of the code
DefaultSystemPrompt == "DEFAULT_SYSTEM_PROMPT"
DefaultUserPrompt == "DEFAULT_USER_PROMPT"

\* the keywords of str.format(news_count=, news_text=, max_keywords=)
FormatFields == {"news_count", "news_text", "max_keywords"}

\* a rendered user prompt: the template whose text it is, and the values
\* filled in
Prompt(template, news_count, news_text, max_keywords) ==
    [template |-> template, news_count |-> news_count, news_text |-> news_text,
     max_keywords |-> max_keywords]

NoPrompt == Prompt("", 0, <<>>, 0)

\* TopicExtractor._build_news_summary, the loop from item i on
RECURSIVE BuildNewsItems(_, _, _)
BuildNewsItems(news_list, i, news_items) ==
    IF i > Len(news_list) THEN Return(news_items)
    ELSE LET news == news_list[i]
             title == IF news.title = None THEN StrValue(NoTitle) ELSE news.title[1]
             source == IF news.source_platform # None THEN news.source_platform[1]
                       ELSE IF news.source # None THEN news.source[1]
                       ELSE UnknownSource
             clean == Strip(RemoveChars(title.s, {"#", "@"}))
             item == StrInt(i) \o <<".", " ", "u3010">> \o source \o <<"u3011">> \o clean
         IN  IF ~title.isStr THEN Raise("TypeError", news_items)
             ELSE BuildNewsItems(news_list, i + 1, Append(news_items, item))

\* line 136: "\n".join(news_items), when the loop did not raise
JoinItems(r) == IF r.raised THEN Raise(r.exc, <<>>) ELSE Return(Join(<<"NL">>, r.value))

\* TopicExtractor._build_news_summary
_build_news_summary(news_list) == JoinItems(BuildNewsItems(news_list, 1, <<>>))

\* self.scenario and 'topic_extraction' in self.scenario.crawler
HasTopicExtraction(scenario) ==
    scenario # None /\ scenario[1].crawler.topic_extraction # None

\* self.scenario.crawler['topic_extraction']
TopicExtractionOf(scenario) == scenario[1].crawler.topic_extraction[1]

\* TopicExtractor._build_analysis_prompt
_build_analysis_prompt(scenario, news_text, max_keywords) ==
    LET news_count == Len(SplitOn(news_text, {"NL"}))
        default == Prompt(DefaultUserPrompt, news_count, news_text, max_keywords)
    IN  IF ~HasTopicExtraction(scenario) THEN Return(default)
        ELSE LET te == TopicExtractionOf(scenario)
                 template == IF te.user_prompt_template = None THEN Template("", {})
                             ELSE te.user_prompt_template[1]
             IN  IF te.isNone THEN Raise("AttributeError", NoPrompt)
                 ELSE IF template.id = "" THEN Return(default)
                 ELSE IF ~(template.fields \subseteq FormatFields) THEN Return(default)
                 ELSE Return(Prompt(template.id, news_count, news_text, max_keywords))

\* the system prompt chosen by lines 90-92 of extract_keywords_and_summary
SystemPromptOf(scenario) ==
    IF ~HasTopicExtraction(scenario) THEN Return(DefaultSystemPrompt)
    ELSE LET te == TopicExtractionOf(scenario)
         IN  IF te.isNone THEN Raise("AttributeError", "")
             ELSE IF te.system_prompt = None THEN Return(DefaultSystemPrompt)
             ELSE Return(te.system_prompt[1])

\* re.search(pattern, kw) for a literal pattern
Search(pattern, kw) == Contains(kw, pattern)

\* the defaults of filters.get('min_length', 2) and filters.get('max_length', 50)
DefaultMinLength == 2
DefaultMaxLength == 50

\* TopicExtractor._apply_keyword_filters, the test of one keyword
KeepKeyword(kw, include_patterns, exclude_patterns, min_length, max_length) ==
    /\ ~(Len(kw) < min_length \/ Len(kw) > max_length)
    /\ ~(exclude_patterns # <<>>
         /\ \E i \in 1..Len(exclude_patterns) : Search(exclude_patterns[i], kw))
    /\ ~(include_patterns # <<>>
         /\ ~\E i \in 1..Len(include_patterns) : Search(include_patterns[i], kw))

\* TopicExtractor._apply_keyword_filters, the loop over the keywords
RECURSIVE FilterLoop(_, _, _)
FilterLoop(keywords, filters, filtered) ==
    IF keywords = <<>> THEN filtered
    ELSE LET kw == Head(keywords)
             include_patterns == IF filters.include_patterns = None THEN <<>>
                                 ELSE filters.include_patterns[1]
             exclude_patterns == IF filters.exclude_patterns = None THEN <<>>
                                 ELSE filters.exclude_patterns[1]
             min_length == IF filters.min_length = None THEN DefaultMinLength
                           ELSE filters.min_length[1]
             max_length == IF filters.max_length = None THEN DefaultMaxLength
                           ELSE filters.max_length[1]
         IN  FilterLoop(Tail(keywords), filters,
                 IF KeepKeyword(kw, include_patterns, exclude_patterns, min_length, max_length)
                 THEN Append(filtered, kw) ELSE filtered)

\* not filters: the mapping is missing or holds no key
NoFilters(te) ==
    \/ te.keyword_filters = None
    \/ te.keyword_filters[1] = Filters(None, None, None, None)

\* TopicExtractor._apply_keyword_filters
_apply_keyword_filters(scenario, keywords) ==
    IF ~HasTopicExtraction(scenario) THEN Return(keywords)
    ELSE LET te == TopicExtractionOf(scenario)
         IN  IF te.isNone THEN Raise("AttributeError", <<>>)
             ELSE IF NoFilters(te) THEN Return(keywords)
             ELSE Return(FilterLoop(keywords, te.keyword_filters[1], <<>>))

\* the stoplist of _extract_simple_keywords:
\* 的 了 在 和 与 或 但 是 有 被 将 已 正在
StopWords ==
    { <<"u7684">>, <<"u4e86">>, <<"u5728">>, <<"u548c">>, <<"u4e0e">>, <<"u6216">>,
      <<"u4f46">>, <<"u662f">>, <<"u6709">>, <<"u88ab">>, <<"u5c06">>, <<"u5df2">>,
      <<"u6b63", "u5728">> }

\* the characters _extract_simple_keywords blanks: # @ 【 】 [ ] ( ) （ ）
TitleMarkers == {"#", "@", "u3010", "u3011", "[", "]", "(", ")", "uff08", "uff09"}

\* keywords[:10] of _extract_simple_keywords
FallbackCap == 10

\* lines 331-333 without the stoplist
IsSimpleWordAnyWord(word, keywords) ==
    Len(word) > 1 /\ word \notin Range(keywords)

\* lines 331-333: the test a word of a title passes to be appended
IsSimpleWord(word, keywords) ==
    Len(word) > 1 /\ word \notin StopWords /\ word \notin Range(keywords)

\* TopicExtractor._extract_simple_keywords, the loop over the words of a title
RECURSIVE SimpleWords(_, _)
SimpleWords(words, keywords) ==
    IF words = <<>> THEN keywords
    ELSE LET word == Strip(Head(words))
         IN  SimpleWords(Tail(words),
                 IF IsSimpleWord(word, keywords)
                 THEN Append(keywords, word) ELSE keywords)

\* TopicExtractor._extract_simple_keywords, the loop over the news
RECURSIVE SimpleNews(_, _)
SimpleNews(news_list, keywords) ==
    IF news_list = <<>> THEN Return(keywords)
    ELSE LET news == Head(news_list)
             title == IF news.title = None THEN StrValue(<<>>) ELSE news.title[1]
             title_clean == BlankChars(title.s, TitleMarkers)
             words == SplitWs(title_clean)
         IN  IF ~title.isStr THEN Raise("TypeError", keywords)
             ELSE SimpleNews(Tail(news_list), SimpleWords(words, keywords))

\* line 336: keywords[:10], when the loops did not raise
CapKeywords(r) == IF r.raised THEN Raise(r.exc, <<>>) ELSE Return(Take(r.value, FallbackCap))

\* TopicExtractor._extract_simple_keywords
_extract_simple_keywords(news_list) == CapKeywords(SimpleNews(news_list, <<>>))

\* the upper length bound of get_search_keywords: len(keyword) < 20
SearchMaxLen == 20

\* lines 355-360 with len(keyword) <= 20 for len(keyword) < 20
IsSearchKeywordUpTo20(keyword, search_keywords) ==
    /\ Len(keyword) > 1
    /\ Len(keyword) <= SearchMaxLen
    /\ keyword \notin Range(search_keywords)
    /\ ~IsDigit(keyword)
    /\ ~IsLatin(keyword)

\* TopicExtractor.get_search_keywords, the test of one keyword
IsSearchKeyword(keyword, search_keywords) ==
    /\ Len(keyword) > 1
    /\ Len(keyword) < SearchMaxLen
    /\ keyword \notin Range(search_keywords)
    /\ ~IsDigit(keyword)
    /\ ~IsLatin(keyword)

\* TopicExtractor.get_search_keywords, the loop
RECURSIVE SearchLoop(_, _)
SearchLoop(keywords, search_keywords) ==
    IF keywords = <<>> THEN search_keywords
    ELSE LET keyword == Strip(Head(keywords))
         IN  SearchLoop(Tail(keywords),
                 IF IsSearchKeyword(keyword, search_keywords)
                 THEN Append(search_keywords, keyword) ELSE search_keywords)

\* TopicExtractor.get_search_keywords
get_search_keywords(keywords, limit) == Take(SearchLoop(keywords, <<>>), limit)


(***************************************************************************)
(* json.loads, for the JSON the model's texts hold: objects, arrays,       *)
(* strings without escapes, unsigned integers, null, true and false.      *)
(* A JSON value is a record: t its type, s the text of a scalar, items     *)
(* the elements of an array or the members [k, v] of an object.            *)
(***************************************************************************)
JScalar(t, s) == [t |-> t, s |-> s, items |-> <<>>]
JComposite(t, items) == [t |-> t, s |-> <<>>, items |-> items]
JNull == JScalar("null", <<>>)

\* the outcome of decoding from a position: ok, the value, the next position
Decoded(v, i) == [ok |-> TRUE, v |-> v, i |-> i]
NotDecoded == [ok |-> FALSE, v |-> JNull, i |-> 0]

\* JSON whitespace is skipped between tokens
RECURSIVE SkipWs(_, _)
SkipWs(s, i) == IF i >= 1 /\ i <= Len(s) /\ IsSpace(s[i]) THEN SkipWs(s, i + 1) ELSE i

\* the end of the run of digits that starts at i
RECURSIVE DigitsEnd(_, _)
DigitsEnd(s, i) == IF i <= Len(s) /\ s[i] \in Digits THEN DigitsEnd(s, i + 1) ELSE i

\* a string from the quote at i to the quote at j (0 if there is none), no
\* line feed within
StringUpTo(s, i, j) ==
    IF j = 0 \/ "NL" \in Range(Slice(s, i + 1, j - 1)) THEN NotDecoded
    ELSE Decoded(JScalar("str", Slice(s, i + 1, j - 1)), j + 1)

\* a string: from the quote at i to the next quote
DecodeString(s, i) == StringUpTo(s, i, Find(s, <<"QT">>, i + 1))

\* the unsigned integer whose digits are s[i..j-1]
NumberUpTo(s, i, j) == Decoded(JScalar("num", Slice(s, i, j - 1)), j)

RECURSIVE DecodeValue(_, _)
RECURSIVE DecodeItems(_, _, _)
RECURSIVE DecodeMembers(_, _, _)

\* after the element r of an array, at position j: "," or "]"
AfterItem(s, items, r, j) ==
    IF ~r.ok \/ j > Len(s) THEN NotDecoded
    ELSE IF s[j] = "," THEN DecodeItems(s, j + 1, Append(items, r.v))
    ELSE IF s[j] = "]" THEN Decoded(JComposite("arr", Append(items, r.v)), j + 1)
    ELSE NotDecoded

\* the element decoded as r, then what follows it
ItemThen(s, items, r) == AfterItem(s, items, r, SkipWs(s, r.i))

\* the elements of an array after "[" or ",": value, then "," or "]"
DecodeItems(s, i, items) == ItemThen(s, items, DecodeValue(s, SkipWs(s, i)))

\* after the member k : r of an object, at position j: "," or "}"
AfterMember(s, items, k, r, j) ==
    IF ~r.ok \/ j > Len(s) THEN NotDecoded
    ELSE IF s[j] = ","
         THEN DecodeMembers(s, j + 1, Append(items, [k |-> k.v.s, v |-> r.v]))
    ELSE IF s[j] = "}"
         THEN Decoded(JComposite("obj", Append(items, [k |-> k.v.s, v |-> r.v])), j + 1)
    ELSE NotDecoded

\* the member's value decoded as r, then what follows it
MemberThen(s, items, k, r) == AfterMember(s, items, k, r, SkipWs(s, r.i))

\* after the key k, at position c: ":" and the value
AfterKey(s, items, k, c) ==
    IF k.ok /\ c <= Len(s) /\ s[c] = ":"
    THEN MemberThen(s, items, k, DecodeValue(s, SkipWs(s, c + 1)))
    ELSE NotDecoded

\* the key decoded as k, then what follows it
KeyThen(s, items, k) == AfterKey(s, items, k, SkipWs(s, k.i))

\* a member from position a on: a key starts with a quote
MemberAt(s, items, a) ==
    IF a <= Len(s) /\ s[a] = "QT" THEN KeyThen(s, items, DecodeString(s, a))
    ELSE NotDecoded

\* the members of an object after "{" or ",": "key" : value, then "," or "}"
DecodeMembers(s, i, items) == MemberAt(s, items, SkipWs(s, i))

\* an array whose first token after "[" is at position a
ArrayAt(s, i, a) ==
    IF a <= Len(s) /\ s[a] = "]" THEN Decoded(JComposite("arr", <<>>), a + 1)
    ELSE DecodeItems(s, i + 1, <<>>)

\* an object whose first token after "{" is at position a
ObjectAt(s, i, a) ==
    IF a <= Len(s) /\ s[a] = "}" THEN Decoded(JComposite("obj", <<>>), a + 1)
    ELSE DecodeMembers(s, i + 1, <<>>)

\* one JSON value starting at i
DecodeValue(s, i) ==
    IF i < 1 \/ i > Len(s) THEN NotDecoded
    ELSE IF s[i] = "QT" THEN DecodeString(s, i)
    ELSE IF s[i] \in Digits THEN NumberUpTo(s, i, DigitsEnd(s, i))
    ELSE IF MatchAt(s, i, <<"n", "u", "l", "l">>) THEN Decoded(JNull, i + 4)
    ELSE IF MatchAt(s, i, <<"t", "r", "u", "e">>)
         THEN Decoded(JScalar("bool", <<"T", "r", "u", "e">>), i + 4)
    ELSE IF MatchAt(s, i, <<"f", "a", "l", "s", "e">>)
         THEN Decoded(JScalar("bool", <<"F", "a", "l", "s", "e">>), i + 5)
    ELSE IF s[i] = "[" THEN ArrayAt(s, i, SkipWs(s, i + 1))
    ELSE IF s[i] = "{" THEN ObjectAt(s, i, SkipWs(s, i + 1))
    ELSE NotDecoded

\* the value r decoded from the start of the text must reach its end
WholeText(json_text, r) ==
    IF r.ok /\ SkipWs(json_text, r.i) = Len(json_text) + 1 THEN Return(r.v)
    ELSE Raise("JSONDecodeError", JNull)

\* json.loads: the value of the whole text, or json.JSONDecodeError
json_loads(json_text) == WholeText(json_text, DecodeValue(json_text, SkipWs(json_text, 1)))

\* dict.get(key, default): the value of the last member of that key
DictGet(data, key, default) ==
    IF \A i \in 1..Len(data.items) : data.items[i].k # key THEN default
    ELSE data.items[Last({i \in 1..Len(data.items) : data.items[i].k = key})].v

\* str(x) of a decoded JSON scalar: a str is itself, an int its digits,
\* null is "None", true and false are "True" and "False"
StrOf(x) == IF x.t = "null" THEN <<"N", "o", "n", "e">> ELSE x.s

\* bool(x) of a decoded JSON value
Truthy(x) ==
    CASE x.t = "null" -> FALSE
      [] x.t = "str" -> x.s # <<>>
      [] x.t = "num" -> \E i \in 1..Len(x.s) : x.s[i] # "0"
      [] x.t = "bool" -> x.s = <<"T", "r", "u", "e">>
      [] OTHER -> x.items # <<>>

\* what "for keyword in keywords" iterates over: the elements of a list,
\* the code points of a str, the keys of a dict; other values are not iterable
Iterate(x) ==
    CASE x.t = "arr" -> Return(x.items)
      [] x.t = "str" -> Return([i \in 1..Len(x.s) |-> JScalar("str", <<x.s[i]>>)])
      [] x.t = "obj" -> Return([i \in 1..Len(x.items) |-> JScalar("str", x.items[i].k)])
      [] OTHER -> Raise("TypeError", <<>>)


(***************************************************************************)
(* The response parser.                                                    *)
(***************************************************************************)
\* a (keywords, summary) pair
Pair(keywords, summary) == [keywords |-> keywords, summary |-> summary]

\* "```json" and "```"
FenceOpen == <<"BT", "BT", "BT", "j", "s", "o", "n">>
FenceClose == <<"BT", "BT", "BT">>

\* the group between the opening fence at i and the closing fence at j
FenceBetween(result_text, i, j) ==
    IF i = 0 \/ j = 0 THEN None
    ELSE Some(Strip(Slice(result_text, i + Len(FenceOpen), j - 1)))

\* the first closing fence after the opening fence at i
FenceFrom(result_text, i) ==
    FenceBetween(result_text, i,
                 IF i = 0 THEN 0 ELSE Find(result_text, FenceClose, i + Len(FenceOpen)))

\* re.search(r'```json\s*(.*?)\s*```', result_text, re.DOTALL): group 1 of the
\* leftmost match, None without a match.  The lazy group ends where the
\* whitespace before the first closing fence begins.
FenceGroup(result_text) == FenceFrom(result_text, Find(result_text, FenceOpen, 1))

\* the shortest summary that is kept: len(summary.strip()) < 10 is replaced
MinSummaryLen == 10

\* line 209 without "keyword not in clean_keywords"
IsCleanKeywordRepeated(keyword, clean_keywords) ==
    keyword # <<>> /\ Len(keyword) > 1

\* line 209: the test a stripped keyword passes to be appended
IsCleanKeyword(keyword, clean_keywords) ==
    keyword # <<>> /\ Len(keyword) > 1 /\ keyword \notin Range(clean_keywords)

\* lines 206-210: the loop that cleans the decoded keywords
RECURSIVE CleanJsonKeywords(_, _)
CleanJsonKeywords(keywords, clean_keywords) ==
    IF keywords = <<>> THEN clean_keywords
    ELSE LET keyword == Strip(StrOf(Head(keywords)))
         IN  CleanJsonKeywords(Tail(keywords),
                 IF IsCleanKeyword(keyword, clean_keywords)
                 THEN Append(clean_keywords, keyword) ELSE clean_keywords)

\* lines 213-216 with len(summary.strip()) <= 10 for len(summary.strip()) < 10
CheckSummaryOver10(clean_keywords, summary) ==
    IF ~Truthy(summary) THEN Return(Pair(clean_keywords, Strip(JsonPlaceholderSummary)))
    ELSE IF summary.t # "str" THEN Raise("AttributeError", Pair(<<>>, <<>>))
    ELSE IF Len(Strip(summary.s)) <= MinSummaryLen
         THEN Return(Pair(clean_keywords, Strip(JsonPlaceholderSummary)))
    ELSE Return(Pair(clean_keywords, Strip(summary.s)))

\* lines 213-216: the summary that is returned with the cleaned keywords
CheckSummary(clean_keywords, summary) ==
    IF ~Truthy(summary) THEN Return(Pair(clean_keywords, Strip(JsonPlaceholderSummary)))
    ELSE IF summary.t # "str" THEN Raise("AttributeError", Pair(<<>>, <<>>))
    ELSE IF Len(Strip(summary.s)) < MinSummaryLen
         THEN Return(Pair(clean_keywords, Strip(JsonPlaceholderSummary)))
    ELSE Return(Pair(clean_keywords, Strip(summary.s)))

\* lines 206-216: the loop over the keywords iter holds, then the summary
CleanThenCheck(iter, summary) ==
    IF iter.raised THEN Raise("TypeError", Pair(<<>>, <<>>))
    ELSE CheckSummary(CleanJsonKeywords(iter.value, <<>>), summary)

\* lines 202-216: the strict tier on the decoded data
StrictTier(data) ==
    IF data.t # "obj" THEN Raise("AttributeError", Pair(<<>>, <<>>))
    ELSE CleanThenCheck(
             Iterate(DictGet(data, <<"k", "e", "y", "w", "o", "r", "d", "s">>,
                             JComposite("arr", <<>>))),
             DictGet(data, <<"s", "u", "m", "m", "a", "r", "y">>, JScalar("str", <<>>)))

\* the markers of the line scan: 关键词 keywords 总结 分析 summary 今日 热点 新闻
MarkKeywordsZh == <<"u5173", "u952e", "u8bcd">>
MarkKeywordsEn == <<"k", "e", "y", "w", "o", "r", "d", "s">>
MarkSummaryZh == <<"u603b", "u7ed3">>
MarkAnalysisZh == <<"u5206", "u6790">>
MarkSummaryEn == <<"s", "u", "m", "m", "a", "r", "y">>
MarkToday == <<"u4eca", "u65e5">>
MarkHot == <<"u70ed", "u70b9">>
MarkNews == <<"u65b0", "u95fb">>

\* the character class [关键词：:keywords\[\]"] of line 253
MarkupChars ==
    {"u5173", "u952e", "u8bcd", "uff1a", ":", "k", "e", "y", "w", "o", "r", "d", "s",
     "[", "]", "QT"}

\* the separators [,，、] of line 251
ListSeparators == {",", "uff0c", "u3001"}

\* a line longer than this may be adopted as the summary (line 263)
SummaryLineLen == 50

RECURSIVE Quoted(_, _)

\* the text between the quotes at a and b, then the later pairs
QuotedBetween(line, a, b) ==
    IF a = 0 \/ b = 0 THEN <<>>
    ELSE <<Slice(line, a + 1, b - 1)>> \o Quoted(line, b + 1)

\* the quote that closes the quote at a
QuotedFrom(line, a) ==
    QuotedBetween(line, a, IF a = 0 THEN 0 ELSE Find(line, <<"QT">>, a + 1))

\* re.findall(r'["](.*?)["]', line): the texts between successive pairs of quotes
Quoted(line, from) == QuotedFrom(line, Find(line, <<"QT">>, from))

\* lines 251-255: the fragments of a keyword line without quoted text
RECURSIVE Fragments(_)
Fragments(parts) ==
    IF parts = <<>> THEN <<>>
    ELSE LET clean_part == Strip(RemoveChars(Head(parts), MarkupChars))
         IN  (IF clean_part # <<>> /\ Len(clean_part) > 1 THEN <<clean_part>> ELSE <<>>)
             \o Fragments(Tail(parts))

\* pieces[-1]
LastOf(pieces) == pieces[Len(pieces)]

\* str.split(sep)[-1] for a one code point sep
LastPiece(s, sep) == LastOf(SplitOn(s, {sep}))

\* lines 246-255: the keywords of a keyword line, keyword_match being the
\* quoted texts found in it
KeywordsOfLine(line, keyword_match) ==
    IF keyword_match # <<>> THEN keyword_match
    ELSE Fragments(SplitOn(line, ListSeparators))

\* lines 239-265: one stripped line, acc holding keywords and summary
ScanLine(line, lower, acc) ==
    IF line = <<>> THEN acc
    ELSE IF Contains(line, MarkKeywordsZh) \/ Contains(lower, MarkKeywordsEn)
    THEN Pair(acc.keywords \o KeywordsOfLine(line, Quoted(line, 1)), acc.summary)
    ELSE IF \/ Contains(line, MarkSummaryZh)
            \/ Contains(line, MarkAnalysisZh)
            \/ Contains(lower, MarkSummaryEn)
    THEN (IF "uff1a" \in Range(line) \/ ":" \in Range(line)
          THEN Pair(acc.keywords, Strip(LastPiece(LastPiece(line, "uff1a"), ":")))
          ELSE acc)
    ELSE IF /\ Len(line) > SummaryLineLen
            /\ \/ Contains(line, MarkToday)
               \/ Contains(line, MarkHot)
               \/ Contains(line, MarkNews)
    THEN (IF acc.summary = <<>> THEN Pair(acc.keywords, line) ELSE acc)
    ELSE acc

\* ScanLine on a line, with line.lower()
ScanStripped(line, acc) == ScanLine(line, Lower(line), acc)

\* lines 238-265: the scan of the lines
RECURSIVE ScanLines(_, _)
ScanLines(lines, acc) ==
    IF lines = <<>> THEN acc
    ELSE ScanLines(Tail(lines), ScanStripped(Strip(Head(lines)), acc))

\* lines 268-272: the loop that cleans the scanned keywords
RECURSIVE CleanManualKeywords(_, _)
CleanManualKeywords(keywords, clean_keywords) ==
    IF keywords = <<>> THEN clean_keywords
    ELSE LET keyword == Strip(Head(keywords))
         IN  CleanManualKeywords(Tail(keywords),
                 IF keyword # <<>> /\ Len(keyword) > 1 /\ keyword \notin Range(clean_keywords)
                 THEN Append(clean_keywords, keyword) ELSE clean_keywords)

\* lines 267-276: the cleaned keywords, and the summary or its placeholder
CleanScanned(acc) ==
    Pair(CleanManualKeywords(acc.keywords, <<>>),
         IF acc.summary = <<>> THEN ManualPlaceholderSummary ELSE acc.summary)

\* lines 233-276 of _manual_parse_result: clean_keywords and summary as they
\* stand when the return statement is reached
ManualScan(text) == CleanScanned(ScanLines(SplitOn(text, {"NL"}), Pair(<<>>, <<>>)))

\* TopicExtractor._manual_parse_result: the return statement of line 278
\* slices by max_keywords, a name that is neither a local, a parameter nor a
\* global of the module, so evaluating it raises NameError
_manual_parse_result(text) == Raise("NameError", ManualScan(text))

\* lines 216 and 225-227: the strict tier's pair, or the failure summary when
\* the strict tier raised
StrictOrFailure(strict) ==
    IF strict.raised THEN Return(Pair(<<>>, FailureSummary)) ELSE strict

\* lines 200-227 once json.loads ended as data.  An exception raised in the
\* handler of json.JSONDecodeError is not caught by the handler of Exception
\* next to it.
ParseDecoded(result_text, data) ==
    IF data.raised THEN _manual_parse_result(result_text)
    ELSE StrictOrFailure(StrictTier(data.value))

\* lines 193-197: the text that is decoded
JsonText(result_text, json_match) ==
    IF json_match # None THEN json_match[1] ELSE Strip(result_text)

\* TopicExtractor._parse_analysis_result on the content of the reply, which is
\* None when the provider sent no text (re.search then raises TypeError)
_parse_analysis_result(result_text) ==
    IF result_text = None THEN Return(Pair(<<>>, FailureSummary))
    ELSE ParseDecoded(result_text[1],
                      json_loads(JsonText(result_text[1], FenceGroup(result_text[1]))))

(***************************************************************************)
(* The inputs the model enumerates.                                        *)
(***************************************************************************)
\* 【热点】AI 芯片 正在 发布
TitleHot ==
    <<"u3010", "u70ed", "u70b9", "u3011", "A", "I", " ", "u82af", "u7247", " ",
      "u6b63", "u5728", " ", "u53d1", "u5e03">>

\* #AI 芯片 的 X
TitleTagged ==
    <<"#", "A", "I", " ", "u82af", "u7247", " ", "u7684", " ", "X">>

\* 的
TitleStop ==
    <<"u7684">>

\* k0 k1 k2 k3 k4 k5 k6 k7 k8 k9 ka
TitleMany ==
    <<"k", "0", " ", "k", "1", " ", "k", "2", " ", "k", "3", " ", "k", "4", " ",
      "k", "5", " ", "k", "6", " ", "k", "7", " ", "k", "8", " ", "k", "9", " ",
      "k", "a">>

\* 微博
SourceWeibo ==
    <<"u5fae", "u535a">>

\* 知乎
SourceZhihu ==
    <<"u77e5", "u4e4e">>

\* the news items of the model: with and without the optional keys, with
\* markers and stop words in the title, and with a title that is no str
NewsFeed ==
    << News(Some(StrValue(TitleHot)), Some(SourceWeibo), None),
       News(Some(StrValue(TitleTagged)), None, Some(SourceZhihu)),
       News(Some(StrValue(TitleStop)), None, None),
       News(Some(StrValue(TitleMany)), Some(SourceWeibo), Some(SourceZhihu)),
       News(None, None, None),
       News(Some(NoneValue), Some(SourceWeibo), None) >>

\* the lists of at most n elements of the list s, in the order of s
RECURSIVE Sublists(_, _)
Sublists(s, n) ==
    IF s = <<>> \/ n = 0 THEN {<<>>}
    ELSE Sublists(Tail(s), n) \cup {<<Head(s)>> \o t : t \in Sublists(Tail(s), n - 1)}

NewsLists == Sublists(NewsFeed, MaxNews)

\* the default of the max_keywords parameter
DefaultMaxKeywords == 100

\* the default of the limit parameter of get_search_keywords
DefaultLimit == 10

MaxKeywordsValues == 0..MaxLimit \cup {DefaultMaxKeywords}
LimitValues == 0..MaxLimit \cup {DefaultLimit}

\* ```json\n{"keywords":["A","B","A"],"summary":"这是一条不少于十个字符的总结文本"}\n```
ReplyRoundTrip ==
    <<"BT", "BT", "BT", "j", "s", "o", "n", "NL", "{", "QT", "k", "e", "y", "w",
      "o", "r", "d", "s", "QT", ":", "[", "QT", "A", "QT", ",", "QT", "B", "QT",
      ",", "QT", "A", "QT", "]", ",", "QT", "s", "u", "m", "m", "a", "r", "y",
      "QT", ":", "QT", "u8fd9", "u662f", "u4e00", "u6761", "u4e0d", "u5c11",
      "u4e8e", "u5341", "u4e2a", "u5b57", "u7b26", "u7684", "u603b", "u7ed3",
      "u6587", "u672c", "QT", "}", "NL", "BT", "BT", "BT">>

\*  {"keywords": ["人工智能", " 芯片 ", "人工智能", 42, "a", null, "AI"], "summary": "这是九个字的总结。"} 
ReplyBare ==
    <<" ", "{", "QT", "k", "e", "y", "w", "o", "r", "d", "s", "QT", ":", " ", "[",
      "QT", "u4eba", "u5de5", "u667a", "u80fd", "QT", ",", " ", "QT", " ", "u82af",
      "u7247", " ", "QT", ",", " ", "QT", "u4eba", "u5de5", "u667a", "u80fd", "QT",
      ",", " ", "4", "2", ",", " ", "QT", "a", "QT", ",", " ", "n", "u", "l", "l",
      ",", " ", "QT", "A", "I", "QT", "]", ",", " ", "QT", "s", "u", "m", "m", "a",
      "r", "y", "QT", ":", " ", "QT", "u8fd9", "u662f", "u4e5d", "u4e2a", "u5b57",
      "u7684", "u603b", "u7ed3", "u3002", "QT", "}", " ">>

\* 好的：\n```json\n{"keywords":["AI芯片","新能源","AI芯片"],"summary":"  这是十个字符的总结。  "}\n```\n以上
ReplyFenced ==
    <<"u597d", "u7684", "uff1a", "NL", "BT", "BT", "BT", "j", "s", "o", "n", "NL",
      "{", "QT", "k", "e", "y", "w", "o", "r", "d", "s", "QT", ":", "[", "QT", "A",
      "I", "u82af", "u7247", "QT", ",", "QT", "u65b0", "u80fd", "u6e90", "QT", ",",
      "QT", "A", "I", "u82af", "u7247", "QT", "]", ",", "QT", "s", "u", "m", "m",
      "a", "r", "y", "QT", ":", "QT", " ", " ", "u8fd9", "u662f", "u5341", "u4e2a",
      "u5b57", "u7b26", "u7684", "u603b", "u7ed3", "u3002", " ", " ", "QT", "}",
      "NL", "BT", "BT", "BT", "NL", "u4ee5", "u4e0a">>

\* 关键词：人工智能，芯片，新能源
ReplyKeywordLine ==
    <<"u5173", "u952e", "u8bcd", "uff1a", "u4eba", "u5de5", "u667a", "u80fd",
      "uff0c", "u82af", "u7247", "uff0c", "u65b0", "u80fd", "u6e90">>

\* Keywords: "AI", "芯片", "AI"\n\n总结：今日AI芯片热点
ReplyQuotedLines ==
    <<"K", "e", "y", "w", "o", "r", "d", "s", ":", " ", "QT", "A", "I", "QT", ",",
      " ", "QT", "u82af", "u7247", "QT", ",", " ", "QT", "A", "I", "QT", "NL",
      "NL", "u603b", "u7ed3", "uff1a", "u4eca", "u65e5", "A", "I", "u82af",
      "u7247", "u70ed", "u70b9">>

\* [1]
ReplyArray ==
    <<"[", "1", "]">>

\* {"keywords":["AI"],"summary":12345678901}
ReplyBadSummary ==
    <<"{", "QT", "k", "e", "y", "w", "o", "r", "d", "s", "QT", ":", "[", "QT", "A",
      "I", "QT", "]", ",", "QT", "s", "u", "m", "m", "a", "r", "y", "QT", ":", "1",
      "2", "3", "4", "5", "6", "7", "8", "9", "0", "1", "}">>

\* {"keywords":null,"summary":"这是一条不少于十个字符的总结文本"}
ReplyBadKeywords ==
    <<"{", "QT", "k", "e", "y", "w", "o", "r", "d", "s", "QT", ":", "n", "u", "l",
      "l", ",", "QT", "s", "u", "m", "m", "a", "r", "y", "QT", ":", "QT", "u8fd9",
      "u662f", "u4e00", "u6761", "u4e0d", "u5c11", "u4e8e", "u5341", "u4e2a",
      "u5b57", "u7b26", "u7684", "u603b", "u7ed3", "u6587", "u672c", "QT", "}">>

\* {}
ReplyEmptyObject ==
    <<"{", "}">>

\* ```json\n{"keywords":["AI"]
ReplyUnclosed ==
    <<"BT", "BT", "BT", "j", "s", "o", "n", "NL", "{", "QT", "k", "e", "y", "w",
      "o", "r", "d", "s", "QT", ":", "[", "QT", "A", "I", "QT", "]">>

ReplyTexts ==
    { ReplyRoundTrip, ReplyBare, ReplyFenced, ReplyKeywordLine, ReplyQuotedLines,
      ReplyArray, ReplyBadSummary, ReplyBadKeywords, ReplyEmptyObject, ReplyUnclosed,
      <<>> }

\* the outcome of self.client.chat.completions.create: it raises, or the
\* reply's message.content is a text or None
Completion(raises, content) == [raises |-> raises, content |-> content]

Completions ==
    {Completion(TRUE, None), Completion(FALSE, None)}
        \cup {Completion(FALSE, Some(t)) : t \in ReplyTexts}

\* a
KwA ==
    <<"a">>

\* ab
KwAb ==
    <<"a", "b">>

\* 42
Kw42 ==
    <<"4", "2">>

\* hello
KwHello ==
    <<"h", "e", "l", "l", "o">>

\* 中文词
KwZh ==
    <<"u4e2d", "u6587", "u8bcd">>

\*  中文词 
KwZhPadded ==
    <<" ", "u4e2d", "u6587", "u8bcd", " ">>

\* AI芯片
KwAiChip ==
    <<"A", "I", "u82af", "u7247">>

\* 人工智能
KwAiZh ==
    <<"u4eba", "u5de5", "u667a", "u80fd">>

\* 芯片
KwChip ==
    <<"u82af", "u7247">>

\* 新能源
KwEnergy ==
    <<"u65b0", "u80fd", "u6e90">>

\* None
KwNone ==
    <<"N", "o", "n", "e">>

\* AI
KwAI ==
    <<"A", "I">>

\* 热点
KwHot ==
    <<"u70ed", "u70b9">>

\* 发布
KwRelease ==
    <<"u53d1", "u5e03">>

\* 这是一条不少于十个字符的总结文本
Summary16 ==
    <<"u8fd9", "u662f", "u4e00", "u6761", "u4e0d", "u5c11", "u4e8e", "u5341",
      "u4e2a", "u5b57", "u7b26", "u7684", "u603b", "u7ed3", "u6587", "u672c">>

\* 这是十个字符的总结。
Summary10 ==
    <<"u8fd9", "u662f", "u5341", "u4e2a", "u5b57", "u7b26", "u7684", "u603b",
      "u7ed3", "u3002">>

\* a keyword of n code points: n - 1 times "x", then 词
LongKeyword(n) == [i \in 1..n |-> IF i < n THEN "x" ELSE "u8bcd"]

\* keywords around the length bounds and the patterns of the filters
FilterPool == <<KwA, KwAb, KwZh, KwAiChip, KwAiZh, LongKeyword(50), LongKeyword(51)>>

\* keywords around the tests of get_search_keywords
SearchPool ==
    <<LongKeyword(19), KwZhPadded, Kw42, KwHello, KwZh, KwA, KwAiChip, LongKeyword(20)>>

\* ["42", "hello", "中文词", "a"]
SearchExample == <<Kw42, KwHello, KwZh, KwA>>

FilterInputs == Sublists(FilterPool, MaxList)
SearchInputs == Sublists(SearchPool, MaxList) \cup {SearchExample}


(***************************************************************************)
(* The pipeline.                                                           *)
(***************************************************************************)
\* what a call leaves behind: whether it raised, the pair it returned, the
\* components that ran, and the prompts handed to the completion call
Outcome(raised, exc, pair, ran, system_prompt, prompt) ==
    [raised |-> raised, exc |-> exc, keywords |-> pair.keywords,
     summary |-> pair.summary, ran |-> ran, system_prompt |-> system_prompt,
     prompt |-> prompt]

NoOutcome == Outcome(FALSE, "", Pair(<<>>, <<>>), {}, "", NoPrompt)

\* lines 119-121: the fallback pair of the keywords _extract_simple_keywords
\* ended with
FallbackOf(fallback_keywords, news_list, max_keywords, ran, system_prompt, prompt) ==
    IF fallback_keywords.raised
    THEN Outcome(TRUE, fallback_keywords.exc, Pair(<<>>, <<>>), ran, system_prompt, prompt)
    ELSE Outcome(FALSE, "",
                 Pair(Take(fallback_keywords.value, max_keywords),
                      FallbackSummary(Len(news_list))),
                 ran, system_prompt, prompt)

\* lines 116-121: the handler of the try block of extract_keywords_and_summary
Fallback(news_list, max_keywords, ran, system_prompt, prompt) ==
    FallbackOf(_extract_simple_keywords(news_list), news_list, max_keywords,
               ran \cup {"FallbackGenerator"}, system_prompt, prompt)

\* lines 111-114: the filter ended as filtered
AfterFilter(filtered, parsed, news_list, max_keywords, system_prompt, prompt) ==
    IF filtered.raised
    THEN Fallback(news_list, max_keywords,
                  {"PromptBuilder", "CompletionClient", "ResponseParser", "KeywordFilter"},
                  system_prompt, prompt)
    ELSE Outcome(FALSE, "",
                 Pair(Take(filtered.value, max_keywords), parsed.value.summary),
                 {"PromptBuilder", "CompletionClient", "ResponseParser", "KeywordFilter"},
                 system_prompt, prompt)

\* lines 108-114: the parser ended as parsed
AfterParse(scenario, parsed, news_list, max_keywords, system_prompt, prompt) ==
    IF parsed.raised
    THEN Fallback(news_list, max_keywords,
                  {"PromptBuilder", "CompletionClient", "ResponseParser"},
                  system_prompt, prompt)
    ELSE AfterFilter(_apply_keyword_filters(scenario, parsed.value.keywords), parsed,
                     news_list, max_keywords, system_prompt, prompt)

\* lines 94-121: the try block of extract_keywords_and_summary and its handler
TryBlock(scenario, news_list, max_keywords, completion, system_prompt, prompt) ==
    IF completion.raises
    THEN Fallback(news_list, max_keywords, {"PromptBuilder", "CompletionClient"},
                  system_prompt, prompt)
    ELSE AfterParse(scenario, _parse_analysis_result(completion.content), news_list,
                    max_keywords, system_prompt, prompt)

\* lines 90-121: the prompt was built as prompt
AfterPrompt(scenario, news_list, max_keywords, completion, prompt, system_prompt) ==
    IF prompt.raised
    THEN Outcome(TRUE, prompt.exc, Pair(<<>>, <<>>), {"PromptBuilder"}, "", NoPrompt)
    ELSE IF system_prompt.raised
    THEN Outcome(TRUE, system_prompt.exc, Pair(<<>>, <<>>), {"PromptBuilder"}, "", NoPrompt)
    ELSE TryBlock(scenario, news_list, max_keywords, completion,
                  system_prompt.value, prompt.value)

\* lines 87-121: the news text was built as news_text
AfterNewsText(scenario, news_list, max_keywords, completion, news_text) ==
    IF news_text.raised
    THEN Outcome(TRUE, news_text.exc, Pair(<<>>, <<>>), {"PromptBuilder"}, "", NoPrompt)
    ELSE AfterPrompt(scenario, news_list, max_keywords, completion,
                     _build_analysis_prompt(scenario, news_text.value, max_keywords),
                     SystemPromptOf(scenario))

\* extract_keywords_and_summary without lines 80-81
ExtractWithoutShortCircuit(scenario, news_list, max_keywords, completion) ==
    AfterNewsText(scenario, news_list, max_keywords, completion,
                  _build_news_summary(news_list))

\* TopicExtractor.extract_keywords_and_summary
extract_keywords_and_summary(scenario, news_list, max_keywords, completion) ==
    IF news_list = <<>>
    THEN Outcome(FALSE, "", Pair(<<>>, NoNewsSummary), {}, "", NoPrompt)
    ELSE AfterNewsText(scenario, news_list, max_keywords, completion,
                       _build_news_summary(news_list))

\* lines 128-130 of get_scenario_loader, new being the outcome of ScenarioLoader()
LoaderOrNew(loader, dir, new) ==
    IF loader # None THEN Return([loader |-> loader, dir |-> dir])
    ELSE IF new.raised THEN Raise(new.exc, [loader |-> loader, dir |-> dir])
    ELSE Return([loader |-> Some(new.value), dir |-> Dir(TRUE, dir.writable, dir.files)])

\* get_scenario_loader: the singleton after the call and the directory it
\* leaves, or the error of constructing the loader
get_scenario_loader(loader, dir) == LoaderOrNew(loader, dir, ScenarioLoader(dir))

\* lines 59-65 with self.scenario left None when the id is not found
FoundOrNone(found, default) == found

\* lines 59-65 of TopicExtractor.__init__, found being loader.get_scenario(id)
\* and default the outcome of loader.get_default_scenario()
FoundOrDefault(found, default) ==
    IF found # None THEN found
    ELSE IF default.raised THEN None
    ELSE default.value

\* lines 57-65 of TopicExtractor.__init__: self.scenario
LoadScenario(cache, scenario_id) ==
    FoundOrDefault(get_scenario(cache, scenario_id), get_default_scenario(cache))

(***************************************************************************)
(* The state machine: one caller that constructs extractors and calls      *)
(* their methods one after the other.                                      *)
(***************************************************************************)
VARIABLES
    disk,              \* the scenarios directory
    importOk,          \* whether utils.scenario_loader could be imported
    _scenario_loader,  \* the module's singleton: None, or the loader's cache
    extractor,         \* None, or the extractor: its scenario_id and self.scenario
    call,              \* the call in hand: the method and its arguments
    result,            \* what the call in hand left behind
    callers,           \* the threads inside get_scenario_loader: where each stands
    instances          \* the ScenarioLoader objects constructed by those threads

vars == <<disk, importOk, _scenario_loader, extractor, call, result, callers, instances>>

\* the threads that call get_scenario_loader concurrently
Callers == 1..MaxCallers

\* a thread inside get_scenario_loader: the statement it executes next, the
\* object it constructed (0 for none) and the object it returned (0 for none)
Caller(pc, made, got) == [pc |-> pc, made |-> made, got |-> got]

\* the objects constructed so far, an object being known by its position in
\* caches; ref is the object _scenario_loader refers to (0 for None), and
\* first the object it referred to first
Instances(caches, ref, first) == [caches |-> caches, ref |-> ref, first |-> first]

\* no thread has entered get_scenario_loader and no object is constructed
NoCallers == [t \in Callers |-> Caller("line128", 0, 0)]
NoInstances == Instances(<<>>, 0, 0)

\* a call: the method, and the arguments it takes among scenario_id,
\* news_list, max_keywords or limit (n), the completion, the raw text and
\* the keywords
Call(op, scenario_id, news_list, n, completion, text, keywords) ==
    [op |-> op, scenario_id |-> scenario_id, news_list |-> news_list, n |-> n,
     completion |-> completion, text |-> text, keywords |-> keywords]

NoCall == Call("none", "", <<>>, 0, Completion(FALSE, None), <<>>, <<>>)

Init ==
    /\ disk \in Disks
    /\ importOk \in BOOLEAN
    /\ importOk \/ disk = Dir(FALSE, TRUE, <<>>)
    /\ _scenario_loader = None
    /\ extractor = None
    /\ call = NoCall
    /\ result = NoOutcome
    /\ callers = NoCallers
    /\ instances = NoInstances

\* lines 53-67 of TopicExtractor.__init__, got being the outcome of
\* get_scenario_loader()
Constructed(scenario_id, got) ==
    /\ call.op = "none"
    /\ call' = Call("__init__", scenario_id, <<>>, 0, Completion(FALSE, None), <<>>, <<>>)
    /\ result' = NoOutcome
    /\ IF ~importOk \/ got.raised
       THEN /\ extractor' = Some([scenario_id |-> scenario_id, scenario |-> None])
            /\ UNCHANGED <<disk, _scenario_loader>>
       ELSE /\ extractor' =
                   Some([scenario_id |-> scenario_id,
                         scenario |-> LoadScenario(got.value.loader[1], scenario_id)])
            /\ _scenario_loader' = got.value.loader
            /\ disk' = got.value.dir
    /\ UNCHANGED <<importOk, callers, instances>>

\* TopicExtractor.__init__
Construct(scenario_id) ==
    Constructed(scenario_id, get_scenario_loader(_scenario_loader, disk))

\* a call of extractor.extract_keywords_and_summary
Extract(news_list, max_keywords, completion) ==
    /\ call.op = "none"
    /\ extractor # None
    /\ call' = Call("extract_keywords_and_summary", "", news_list, max_keywords,
                    completion, <<>>, <<>>)
    /\ result' = extract_keywords_and_summary(extractor[1].scenario, news_list,
                                              max_keywords, completion)
    /\ UNCHANGED <<disk, importOk, _scenario_loader, extractor, callers, instances>>

\* what a call of _parse_analysis_result that ended as r leaves behind
Parsed(r) ==
    Outcome(r.raised, r.exc, IF r.raised THEN Pair(<<>>, <<>>) ELSE r.value,
            {"ResponseParser"}, "", NoPrompt)

\* a call of extractor._parse_analysis_result
Parse(result_text) ==
    /\ call.op = "none"
    /\ extractor # None
    /\ call' = Call("_parse_analysis_result", "", <<>>, 0, Completion(FALSE, None),
                    result_text, <<>>)
    /\ result' = Parsed(_parse_analysis_result(Some(result_text)))
    /\ UNCHANGED <<disk, importOk, _scenario_loader, extractor, callers, instances>>

\* what a call of _apply_keyword_filters that ended as r leaves behind
Filtered(r) ==
    Outcome(r.raised, r.exc, Pair(r.value, <<>>), {"KeywordFilter"}, "", NoPrompt)

\* a call of extractor._apply_keyword_filters
Filter(keywords) ==
    /\ call.op = "none"
    /\ extractor # None
    /\ call' = Call("_apply_keyword_filters", "", <<>>, 0, Completion(FALSE, None),
                    <<>>, keywords)
    /\ result' = Filtered(_apply_keyword_filters(extractor[1].scenario, keywords))
    /\ UNCHANGED <<disk, importOk, _scenario_loader, extractor, callers, instances>>

\* a call of extractor.get_search_keywords
SelectSearch(keywords, limit) ==
    /\ call.op = "none"
    /\ extractor # None
    /\ call' = Call("get_search_keywords", "", <<>>, limit, Completion(FALSE, None),
                    <<>>, keywords)
    /\ result' = Outcome(FALSE, "", Pair(get_search_keywords(keywords, limit), <<>>),
                         {}, "", NoPrompt)
    /\ UNCHANGED <<disk, importOk, _scenario_loader, extractor, callers, instances>>

\* the caller takes the outcome of the call in hand and goes on
Continue ==
    /\ call.op # "none"
    /\ call' = NoCall
    /\ result' = NoOutcome
    /\ UNCHANGED <<disk, importOk, _scenario_loader, extractor, callers, instances>>

Next ==
    \/ \E scenario_id \in ScenarioIds : Construct(scenario_id)
    \/ \E news_list \in NewsLists, max_keywords \in MaxKeywordsValues,
          completion \in Completions : Extract(news_list, max_keywords, completion)
    \/ \E result_text \in ReplyTexts : Parse(result_text)
    \/ \E keywords \in FilterInputs : Filter(keywords)
    \/ \E keywords \in SearchInputs, limit \in LimitValues : SelectSearch(keywords, limit)
    \/ Continue

Spec == Init /\ [][Next]_vars

(***************************************************************************)
(* get_scenario_loader called by several threads at once.  The function    *)
(* takes no lock; a thread may be suspended between any two of its         *)
(* statements, and between the construction of line 129 and the store of   *)
(* its value into the global.                                              *)
(***************************************************************************)
\* line 128: if _scenario_loader is None
TestLoader(t) ==
    /\ callers[t].pc = "line128"
    /\ callers' = [callers EXCEPT ![t].pc =
                       IF _scenario_loader = None THEN "line129" ELSE "line130"]
    /\ UNCHANGED <<disk, importOk, _scenario_loader, extractor, call, result, instances>>

\* line 129, the right-hand side, new being the outcome of ScenarioLoader()
NewLoaderOf(t, new) ==
    /\ callers[t].pc = "line129"
    /\ IF new.raised
       THEN /\ callers' = [callers EXCEPT ![t].pc = "raised"]
            /\ UNCHANGED <<disk, instances>>
       ELSE /\ instances' = Instances(Append(instances.caches, new.value),
                                      instances.ref, instances.first)
            /\ callers' = [callers EXCEPT ![t].pc = "store",
                                          ![t].made = Len(instances.caches) + 1]
            /\ disk' = Dir(TRUE, disk.writable, disk.files)
    /\ UNCHANGED <<importOk, _scenario_loader, extractor, call, result>>

\* line 129: ScenarioLoader()
NewLoader(t) == NewLoaderOf(t, ScenarioLoader(disk))

\* line 129, the assignment to the global
StoreLoader(t) ==
    /\ callers[t].pc = "store"
    /\ _scenario_loader' = Some(instances.caches[callers[t].made])
    /\ instances' = Instances(instances.caches, callers[t].made,
                              IF instances.first = 0 THEN callers[t].made
                              ELSE instances.first)
    /\ callers' = [callers EXCEPT ![t].pc = "line130"]
    /\ UNCHANGED <<disk, importOk, extractor, call, result>>

\* line 130: return _scenario_loader
ReturnLoader(t) ==
    /\ callers[t].pc = "line130"
    /\ callers' = [callers EXCEPT ![t].pc = "done", ![t].got = instances.ref]
    /\ UNCHANGED <<disk, importOk, _scenario_loader, extractor, call, result, instances>>

\* the process has imported the module and no extractor is at work
InitLoader ==
    /\ disk \in Disks
    /\ importOk = TRUE
    /\ _scenario_loader = None
    /\ extractor = None
    /\ call = NoCall
    /\ result = NoOutcome
    /\ callers = NoCallers
    /\ instances = NoInstances

NextLoader ==
    \/ \E t \in Callers : TestLoader(t)
    \/ \E t \in Callers : NewLoader(t)
    \/ \E t \in Callers : StoreLoader(t)
    \/ \E t \in Callers : ReturnLoader(t)

SpecLoader == InitLoader /\ [][NextLoader]_vars


(***************************************************************************)
(* The claims of the specification, stated over the call in hand and what  *)
(* it left behind.                                                         *)
(***************************************************************************)
\* no element of s is repeated
NoDuplicates(s) == \A i, j \in 1..Len(s) : s[i] = s[j] => i = j

\* the elements of s at the positions at, in order
Picked(s, at) == [k \in 1..Cardinality(at) |-> s[Kth(at, k)]]

\* s without the repetitions of an earlier element
FirstOccurrences(s) == Picked(s, {i \in 1..Len(s) : \A j \in 1..(i - 1) : s[j] # s[i]})

Min(a, b) == IF a < b THEN a ELSE b

IsExtract == call.op = "extract_keywords_and_summary"
IsParse == call.op = "_parse_analysis_result"
IsFilter == call.op = "_apply_keyword_filters"
IsSelectSearch == call.op = "get_search_keywords"
IsConstruct == call.op = "__init__"

\* the completion call was issued
CompletionIssued == IsExtract /\ "CompletionClient" \in result.ran

\* C1, as the specification states it: whatever the news list, the scenario
\* and the outcome of the completion call are, extract_keywords_and_summary
\* ends by returning a pair and propagates no exception.
C1_ExtractNeverRaises == IsExtract => ~result.raised

\* C2: every result extract_keywords_and_summary returns for a non-empty news
\* list has a summary of non-zero length and keywords without a duplicate and
\* without an entry shorter than 2 characters.
C2_ReturnedResultWellFormed ==
    (IsExtract /\ call.news_list # <<>> /\ ~result.raised) =>
        /\ Len(result.summary) > 0
        /\ NoDuplicates(result.keywords)
        /\ \A i \in 1..Len(result.keywords) : Len(result.keywords[i]) >= 2

\* the strict tier returned the keywords of a reply that repeats one keyword
\* and holds one of a single character, and the filter ran on them
C2_Witness ==
    /\ IsExtract
    /\ call.news_list # <<>>
    /\ call.completion = Completion(FALSE, Some(ReplyBare))
    /\ "KeywordFilter" \in result.ran
    /\ ~result.raised
    /\ result.keywords = <<KwAiZh, KwChip, Kw42, KwNone, KwAI>>
    /\ result.summary = JsonPlaceholderSummary

\* 今日暂无热点新闻
C3_NoNews == <<"u4eca", "u65e5", "u6682", "u65e0", "u70ed", "u70b9", "u65b0", "u95fb">>

\* C3: on an empty news list extract_keywords_and_summary returns exactly
\* ([], "今日暂无热点新闻"), and neither the prompt builder, the completion
\* call, the parser, the filter nor the fallback generator runs, whatever the
\* scenario and max_keywords are.
C3_EmptyListShortCircuit ==
    (IsExtract /\ call.news_list = <<>>) =>
        /\ ~result.raised
        /\ result.keywords = <<>>
        /\ result.summary = C3_NoNews
        /\ result.ran = {}
        /\ result.prompt = NoPrompt
        /\ result.system_prompt = ""

\* the empty list was handed to an extractor that has a scenario, with a
\* completion call that would have raised
C3_Witness ==
    /\ IsExtract
    /\ call.news_list = <<>>
    /\ call.n = DefaultMaxKeywords
    /\ call.completion.raises
    /\ extractor # None
    /\ extractor[1].scenario # None
    /\ result.summary = C3_NoNews

\* the title of a news dict for the fallback: '' without the key
TitleOf(news) == IF news.title = None THEN <<>> ELSE news.title[1].s

\* the whitespace-separated tokens of the titles as they are, in order
RECURSIVE RawTokens(_)
RawTokens(news_list) ==
    IF news_list = <<>> THEN <<>>
    ELSE SplitWs(TitleOf(Head(news_list))) \o RawTokens(Tail(news_list))

\* the whitespace-separated tokens of the titles once # @ 【 】 [ ] ( ) （ ）
\* are replaced by a space, in order
RECURSIVE MarkerFreeTokens(_)
MarkerFreeTokens(news_list) ==
    IF news_list = <<>> THEN <<>>
    ELSE SplitWs(BlankChars(TitleOf(Head(news_list)), TitleMarkers))
             \o MarkerFreeTokens(Tail(news_list))

\* the completion call was issued on a non-empty news list and raised
CompletionRaised == CompletionIssued /\ call.news_list # <<>> /\ call.completion.raises

\* the summary states the number of news items
StatesCount == Contains(result.summary, StrInt(Len(call.news_list)))

\* C4, amended: whenever the completion call raises on a non-empty news list,
\* extract_keywords_and_summary returns the first min(10, max_keywords) of the
\* tokens of the titles (the markers replaced by spaces, split on whitespace)
\* that are longer than 1 character and not in the stoplist, deduplicated in
\* first-occurrence order; the list may be empty; the summary states the
\* number of news items.
C4_FallbackKeywords ==
    CompletionRaised =>
        /\ ~result.raised
        /\ Len(result.keywords) <= 10
        /\ result.keywords =
               Take(FirstOccurrences(SelectSeq(MarkerFreeTokens(call.news_list),
                                               LAMBDA w : Len(w) > 1 /\ w \notin StopWords)),
                    Min(10, call.n))
        /\ StatesCount

\* the fallback of the single title 【热点】AI 芯片 正在 发布: the markers end
\* tokens and the stop word 正在 is dropped
C4_Witness ==
    /\ CompletionRaised
    /\ call.news_list = <<NewsFeed[1]>>
    /\ call.n = DefaultMaxKeywords
    /\ result.keywords = <<KwHot, KwAI, KwChip, KwRelease>>
    /\ "FallbackGenerator" \in result.ran

\* C4, as the specification states it: the fallback keyword list is not
\* empty, has at most 10 items, each a whitespace-separated token of some
\* title, longer than 1 character, not in the stoplist and not repeated, and
\* the summary states the number of news items.
C4_FallbackNonEmpty ==
    CompletionRaised =>
        /\ ~result.raised
        /\ result.keywords # <<>>
        /\ Len(result.keywords) <= 10
        /\ NoDuplicates(result.keywords)
        /\ \A i \in 1..Len(result.keywords) :
               /\ Len(result.keywords[i]) > 1
               /\ result.keywords[i] \notin StopWords
               /\ result.keywords[i] \in Range(RawTokens(call.news_list))
        /\ StatesCount

\* C5, as the specification states it: _parse_analysis_result raises for no
\* raw text.
C5_ParseNeverRaises == IsParse => ~result.raised

\* C6, as the specification states it: on the text 关键词：人工智能，芯片，新能源,
\* which is no JSON, _parse_analysis_result returns the fragments of the
\* keyword line, ["人工智能", "芯片", "新能源"], with the placeholder summary
\* of the line scan.
C6_KeywordLineResult ==
    (IsParse /\ call.text = ReplyKeywordLine) =>
        /\ ~result.raised
        /\ result.keywords = <<KwAiZh, KwChip, KwEnergy>>
        /\ result.summary = ManualPlaceholderSummary

\* the JSON value the text holds: the group of the json fence, else the
\* whole stripped text, decoded
HeldJson(text) == json_loads(JsonText(text, FenceGroup(text)))

ScalarTypes == {"str", "num", "bool", "null"}

\* the keywords array stringified and stripped, the entries of length <= 1
\* dropped, later duplicates removed
StrictKeywords(kv) ==
    FirstOccurrences(SelectSeq([i \in 1..Len(kv.items) |-> Strip(StrOf(kv.items[i]))],
                               LAMBDA k : Len(k) > 1))

\* the stripped summary when it has at least 10 characters, else the placeholder
StrictSummary(sv) ==
    IF Len(Strip(sv.s)) >= 10 THEN Strip(sv.s) ELSE JsonPlaceholderSummary

\* the result for an object data whose keywords kv is an array of scalars
\* and whose summary sv is a string (both as given, or the default of a
\* missing key)
StrictRule(data, kv, sv) ==
    (/\ data.t = "obj"
     /\ kv.t = "arr"
     /\ \A i \in 1..Len(kv.items) : kv.items[i].t \in ScalarTypes
     /\ sv.t = "str") =>
        /\ ~result.raised
        /\ result.keywords = StrictKeywords(kv)
        /\ result.summary = StrictSummary(sv)

StrictRuleOn(data) ==
    ~data.raised =>
        StrictRule(data.value,
                   DictGet(data.value, <<"k", "e", "y", "w", "o", "r", "d", "s">>,
                           JComposite("arr", <<>>)),
                   DictGet(data.value, <<"s", "u", "m", "m", "a", "r", "y">>,
                           JScalar("str", <<>>)))

\* C7, amended: for a raw text that holds a well-formed JSON object (in a
\* json fence, or as the whole stripped text) whose keywords is an array of
\* scalars and whose summary is a string, _parse_analysis_result returns the
\* array stringified and stripped, the entries of length <= 1 dropped and
\* later duplicates removed in first-occurrence order, with the stripped
\* summary when that has at least 10 characters and the placeholder summary
\* otherwise; so the keywords "A", "B", "A" of the round trip all go.
C7_StrictTierResult ==
    /\ IsParse => StrictRuleOn(HeldJson(call.text))
    /\ (IsParse /\ call.text = ReplyRoundTrip) =>
           result.keywords = <<>> /\ result.summary = Summary16

\* the fenced reply with "AI芯片" twice and a summary of exactly 10
\* characters between spaces
C7_Witness ==
    /\ IsParse
    /\ call.text = ReplyFenced
    /\ ~result.raised
    /\ result.keywords = <<KwAiChip, KwEnergy>>
    /\ result.summary = Summary10

\* C7, as the specification states it: the rule above, under which the
\* round trip {"keywords":["A","B","A"],...} yields ["A","B"].
C7_RoundTripExample ==
    /\ IsParse => StrictRuleOn(HeldJson(call.text))
    /\ (IsParse /\ call.text = ReplyRoundTrip) =>
           result.keywords = << <<"A">>, <<"B">> >> /\ result.summary = Summary16

\* the mapping of the extractor's scenario that holds the filter rules, if
\* there is one: none without a scenario, without a topic_extraction
\* section, or with that section left null
RulesSection ==
    IF extractor = None THEN None
    ELSE IF extractor[1].scenario = None THEN None
    ELSE IF extractor[1].scenario[1].crawler.topic_extraction = None THEN None
    ELSE IF extractor[1].scenario[1].crawler.topic_extraction[1].isNone THEN None
    ELSE extractor[1].scenario[1].crawler.topic_extraction[1].keyword_filters

\* the list a rule holds, empty when the rule is not given
RuleList(rule) == IF rule = None THEN <<>> ELSE rule[1]

\* keyword k passes the rules: minLength <= len(k) <= maxLength with the
\* defaults 2 and 50, no exclude pattern matches, and an include pattern
\* matches when there is one
Passes(k, rules) ==
    /\ Len(k) >= (IF rules.min_length = None THEN 2 ELSE rules.min_length[1])
    /\ Len(k) <= (IF rules.max_length = None THEN 50 ELSE rules.max_length[1])
    /\ \A i \in 1..Len(RuleList(rules.exclude_patterns)) :
           ~Contains(k, RuleList(rules.exclude_patterns)[i])
    /\ \/ RuleList(rules.include_patterns) = <<>>
       \/ \E i \in 1..Len(RuleList(rules.include_patterns)) :
              Contains(k, RuleList(rules.include_patterns)[i])

\* the output of the filter under the rules section
FilterRule(section) ==
    IF section = None THEN result.keywords = call.keywords
    ELSE IF section[1] = Filters(None, None, None, None)
         THEN result.keywords = call.keywords
    ELSE result.keywords = SelectSeq(call.keywords, LAMBDA k : Passes(k, section[1]))

\* C8, as the specification states it: _apply_keyword_filters is the
\* identity when the scenario has no filter rules or empty rules, and
\* otherwise returns the keywords that pass the rules, in order.
C8_FilterRule == IsFilter => (~result.raised /\ FilterRule(RulesSection))

\* the keyword is suitable for search
Suitable(k) ==
    /\ Len(k) > 1
    /\ Len(k) < 20
    /\ \E i \in 1..Len(k) : k[i] \notin Digits
    /\ \E i \in 1..Len(k) : k[i] \notin (LowerLetters \cup UpperLetters)

LoadableFiles == SelectSeq(disk.files, LAMBDA f : f.data.metadata # None)

\* the store holds no scenario of that id, or there is no store
UnknownId(id) ==
    ~importOk \/ \A i \in 1..Len(LoadableFiles) : LoadableFiles[i].stem # id

\* the file of the scenario the store gives for an unknown id: "default",
\* else the first that loaded; none when there is no store or it is empty
StoreDefault ==
    IF ~importOk \/ LoadableFiles = <<>> THEN None
    ELSE IF \E i \in 1..Len(LoadableFiles) : LoadableFiles[i].stem = "default"
         THEN Some(LoadableFiles[First({i \in 1..Len(LoadableFiles) :
                                           LoadableFiles[i].stem = "default"})])
    ELSE Some(LoadableFiles[1])

\* crawler.topic_extraction of a file, when it is a mapping
SectionOf(file) ==
    IF file = None THEN None
    ELSE IF file[1].data.crawler = None THEN None
    ELSE IF file[1].data.crawler[1].topic_extraction = None THEN None
    ELSE IF file[1].data.crawler[1].topic_extraction[1].isNone THEN None
    ELSE file[1].data.crawler[1].topic_extraction

\* the system prompt a file configures, else the built-in one
ConfiguredSystemPrompt(section) ==
    IF section = None THEN DefaultSystemPrompt
    ELSE IF section[1].system_prompt = None THEN DefaultSystemPrompt
    ELSE section[1].system_prompt[1]

\* the user-prompt template a file configures and that can be rendered,
\* else the built-in one
ConfiguredTemplate(section) ==
    IF section = None THEN DefaultUserPrompt
    ELSE IF section[1].user_prompt_template = None THEN DefaultUserPrompt
    ELSE IF section[1].user_prompt_template[1].id = "" THEN DefaultUserPrompt
    ELSE IF ~(section[1].user_prompt_template[1].fields \subseteq
                  {"news_count", "news_text", "max_keywords"})
         THEN DefaultUserPrompt
    ELSE section[1].user_prompt_template[1].id

\* the extractor in hand was constructed with an id the store does not hold
\* and its completion call was issued
UnknownIdExtract ==
    CompletionIssued /\ extractor # None /\ UnknownId(extractor[1].scenario_id)

\* C10, amended: constructing the extractor with a scenario id unknown to
\* the store does not fail; the extractor proceeds with the store's default
\* scenario (the one of id "default", else the first that loaded) and its
\* extract calls use that scenario's prompts; the built-in default prompts
\* are used only where that scenario configures none, or when the store is
\* unavailable or empty.
C10_UnknownIdUsesStoreDefault ==
    /\ (IsConstruct /\ UnknownId(call.scenario_id)) =>
           /\ extractor # None
           /\ extractor[1].scenario_id = call.scenario_id
           /\ (StoreDefault = None) = (extractor[1].scenario = None)
           /\ StoreDefault # None =>
                  extractor[1].scenario[1].name = StoreDefault[1].data.metadata[1]
    /\ UnknownIdExtract =>
           /\ result.system_prompt = ConfiguredSystemPrompt(SectionOf(StoreDefault))
           /\ result.prompt.template = ConfiguredTemplate(SectionOf(StoreDefault))

\* a store without "default" whose first loaded scenario configures a
\* system prompt: an extractor of an unknown id sent that prompt
C10_Witness ==
    /\ UnknownIdExtract
    /\ StoreDefault # None
    /\ StoreDefault[1].stem = "nofilter"
    /\ extractor[1].scenario_id = "prompt_engineering"
    /\ result.system_prompt = "SYS_PROMPT_nofilter"
    /\ result.prompt.template = DefaultUserPrompt

\* C10, as the specification states it: an extractor constructed with an
\* unknown scenario id sends the built-in default system prompt and the
\* built-in default user prompt.
C10_UnknownIdUsesBuiltInPrompts ==
    UnknownIdExtract =>
        /\ result.system_prompt = DefaultSystemPrompt
        /\ result.prompt.template = DefaultUserPrompt

\* the completion call was issued and returned: message.content is a raw
\* text, or None
CompletionReturned == CompletionIssued /\ ~call.completion.raises

\* C11, as the specification states it: in every run where the completion
\* call returns, whatever the raw text and the filter rules are,
\* extract_keywords_and_summary returns the parser's result passed through
\* the keyword filter and cut to max_keywords; the fallback generator does
\* not run, and the result is never the title-derived keywords with the
\* summary that counts the news.
C11_FallbackOnlyOnCompletionFailure ==
    CompletionReturned =>
        /\ ~result.raised
        /\ {"ResponseParser", "KeywordFilter"} \subseteq result.ran
        /\ "FallbackGenerator" \notin result.ran
        /\ result.summary # FallbackSummary(Len(call.news_list))

\* C12, as the specification states it: under any interleaving of concurrent
\* get_scenario_loader calls at most one ScenarioLoader is constructed, every
\* caller that returns receives that same object, and once the module-level
\* reference is set it keeps referring to the object it referred to first,
\* whose cache does not change.
C12_LoadedOnce ==
    /\ Len(instances.caches) <= 1
    /\ \A t, u \in Callers :
           (callers[t].pc = "done" /\ callers[u].pc = "done") =>
               callers[t].got = callers[u].got
    /\ instances.ref = instances.first
    /\ instances.ref # 0 =>
           _scenario_loader = Some(instances.caches[instances.first])

=============================================================================
